---- MODULE Spec2Model ----
(***************************************************************************)
(* The room-coordination server of DevCollab (server/socket.js): sockets   *)
(* join rooms under a username, relay code changes and chat messages, and  *)
(* are cleaned up when they disconnect.  Node runs every handler to        *)
(* completion on one event loop, so each handler is one atomic action.     *)
(***************************************************************************)
EXTENDS Integers, Sequences, FiniteSets, TLC

(***************************************************************************)
(* Input domains.                                                          *)
(***************************************************************************)
ConnIds == <<"c1", "c2", "c3">>      \* socket ids, handed out in this order
Conns == {ConnIds[i] : i \in DOMAIN ConnIds}
Rooms == {"r1", "r2"}                \* room ids clients name
Users == {"A", "B"}                  \* usernames clients name
Codes == {"", "x"}                   \* editor contents, the empty one included
Texts == {"hi"}                      \* chat texts
Undefined == "undefined"             \* JavaScript's undefined (a missing payload field)

UserInputs == Users \cup {Undefined}
CodeInputs == Codes \cup {Undefined}
RoomKeys == Rooms \cup {Undefined}   \* a join without roomId joins the room keyed undefined

DataRooms == {"r1"}                  \* rooms whose code and chat the general specification drives
MaxSends == 1      \* messages sent in the general specification
MaxLive == 2       \* sockets connected at the same time in the general specification
MaxChat == 102     \* messages sent in the chat-history specification
Capacity == 100    \* retained messages per room

(***************************************************************************)
(* JavaScript objects are functions from their keys; reading a missing key *)
(* yields undefined.                                                       *)
(***************************************************************************)
Range(s) == {s[i] : i \in DOMAIN s}
Lookup(obj, k) == IF k \in DOMAIN obj THEN obj[k] ELSE Undefined
Put(obj, k, v) == [x \in DOMAIN obj \cup {k} |-> IF x = k THEN v ELSE obj[x]]
Delete(obj, K) == [x \in DOMAIN obj \ K |-> obj[x]]
Truthy(v) == v \notin {Undefined, ""}
Without(s, K) == SelectSeq(s, LAMBDA e : e \notin K)
SetAdd(s, e) == IF e \in Range(s) THEN s ELSE Append(s, e)

VARIABLES
    sockets,        \* io.sockets.sockets: ids of the connected sockets
    closed,         \* ids of sockets that have disconnected (ids are never reused)
    rooms,          \* io.sockets.adapter.rooms: room -> socket ids in join order
    userSocketMap,  \* socket id -> username
    roomCodeMap,    \* room -> latest code
    roomUsers,      \* room -> set of usernames
    roomMessages,   \* room -> retained chat messages
    now,            \* the clock Date.now() reads
    sent,           \* history: messages sent to a room since it was last destroyed
    ev,             \* history: the event handled last (a disconnecting also notes
                    \* the room the event before it evicted the socket from)
    out             \* the events the last handler emitted, in order

vars == <<sockets, closed, rooms, userSocketMap, roomCodeMap, roomUsers,
          roomMessages, now, sent, ev, out>>

store == <<userSocketMap, roomCodeMap, roomUsers, roomMessages>>

Init ==
    /\ sockets = {}
    /\ closed = {}
    /\ rooms = [r \in RoomKeys |-> <<>>]
    /\ userSocketMap = <<>>
    /\ roomCodeMap = <<>>
    /\ roomUsers = <<>>
    /\ roomMessages = <<>>
    /\ now = 0
    /\ sent = [r \in RoomKeys |-> <<>>]
    /\ ev = [op |-> "init"]
    /\ out = <<>>

(***************************************************************************)
(* getAllConnectedClients: a Map keyed by username, filled in room order;  *)
(* a later socket of the same username replaces the earlier entry in place.*)
(***************************************************************************)
\* variant: an array pushed to instead of a Map keyed by username
MapSetAppend(m, entry) == Append(m, entry)
MapSet(m, entry) ==
    IF \E j \in DOMAIN m : m[j].username = entry.username
    THEN [j \in DOMAIN m |-> IF m[j].username = entry.username THEN entry ELSE m[j]]
    ELSE Append(m, entry)

RECURSIVE UniqueUsers(_, _, _)
UniqueUsers(members, map, acc) ==
    IF members = <<>> THEN acc
    ELSE LET socketId == Head(members)
             username == Lookup(map, socketId)
         IN  UniqueUsers(Tail(members), map,
                 IF Truthy(username)
                 THEN MapSet(acc, [socketId |-> socketId, username |-> username])
                 ELSE acc)

getAllConnectedClients(members, map) == UniqueUsers(members, map, <<>>)

(***************************************************************************)
(* io.to(roomId) reaches every socket joined to the room; socket.to(roomId)*)
(* reaches every one of them but the socket itself.                        *)
(***************************************************************************)
IoTo(roomId) == Range(rooms[roomId])

\* variant: the broadcast that does not leave the socket itself out
SocketToAll(id, roomId) == Range(rooms[roomId])
SocketTo(id, roomId) == Range(rooms[roomId]) \ {id}

(***************************************************************************)
(* A socket connects: socket.io gives it a fresh id.                       *)
(***************************************************************************)
Fresh == {i \in DOMAIN ConnIds : ConnIds[i] \notin sockets \cup closed}
NextId == ConnIds[CHOOSE i \in Fresh : \A j \in Fresh : i <= j]

Connect ==
    /\ Fresh # {}
    /\ sockets' = sockets \cup {NextId}
    /\ ev' = [op |-> "connect", id |-> NextId]
    /\ out' = <<>>
    /\ UNCHANGED <<closed, rooms, store, now, sent>>

(***************************************************************************)
(* socket.on(ACTIONS.JOIN)                                                 *)
(***************************************************************************)
\* variant: the join that leaves earlier holders of the username in place
EvictedNone(id, roomId, username) == {}
Evicted(id, roomId, username) ==
    {e \in Range(rooms[roomId]) :
        /\ Lookup(userSocketMap, e) = username
        /\ e \in sockets
        /\ e # id}

Join(id, roomId, username) ==
    LET evicted == Evicted(id, roomId, username)
        map == Put(Delete(userSocketMap, evicted), id, username)
        members == SetAdd(Without(rooms[roomId], evicted), id)
        users == IF roomId \in DOMAIN roomUsers THEN roomUsers[roomId] ELSE {}
        joined == [kind |-> "joined", to |-> Range(members),
                   clients |-> getAllConnectedClients(members, map),
                   username |-> username, socketId |-> id]
        code == Lookup(roomCodeMap, roomId)
    IN  /\ id \in sockets
        /\ userSocketMap' = map
        /\ rooms' = [rooms EXCEPT ![roomId] = members]
        /\ roomUsers' = Put(roomUsers, roomId, users \cup {username})
        /\ out' = IF Truthy(code)
                  THEN <<joined, [kind |-> "code-change", to |-> {id}, code |-> code]>>
                  ELSE <<joined>>
        /\ roomMessages' = IF roomId \in DOMAIN roomMessages
                           THEN roomMessages
                           ELSE Put(roomMessages, roomId, <<>>)
        /\ ev' = [op |-> "join", id |-> id, roomId |-> roomId,
                  username |-> username, evicted |-> evicted]
        /\ UNCHANGED <<sockets, closed, roomCodeMap, now, sent>>

(***************************************************************************)
(* socket.on(ACTIONS.CODE_CHANGE)                                          *)
(***************************************************************************)
CodeChange(id, roomId, code) ==
    /\ id \in sockets
    /\ roomCodeMap' = Put(roomCodeMap, roomId, code)
    /\ out' = <<[kind |-> "code-change", to |-> SocketTo(id, roomId),
                 code |-> code]>>
    /\ ev' = [op |-> "codeChange", id |-> id, roomId |-> roomId, code |-> code]
    /\ UNCHANGED <<sockets, closed, rooms, userSocketMap, roomUsers,
                   roomMessages, now, sent>>

(***************************************************************************)
(* socket.on(ACTIONS.SYNC_CODE); io.to(socketId) reaches the socket of     *)
(* that id if it is connected and nobody otherwise.  The handler never     *)
(* reads the socket the event arrived on: any connected socket sends it.   *)
(***************************************************************************)
SyncCode(socketId, roomId, code) ==
    LET codes == IF code # Undefined THEN Put(roomCodeMap, roomId, code)
                 ELSE roomCodeMap
        current == Lookup(codes, roomId)
    IN  /\ sockets # {}
        /\ roomCodeMap' = codes
        /\ out' = IF Truthy(current)
                  THEN <<[kind |-> "code-change", to |-> {socketId} \cap sockets,
                          code |-> current]>>
                  ELSE <<>>
        /\ ev' = [op |-> "syncCode", socketId |-> socketId,
                  roomId |-> roomId, code |-> code]
        /\ UNCHANGED <<sockets, closed, rooms, userSocketMap, roomUsers,
                       roomMessages, now, sent>>

(***************************************************************************)
(* socket.on(ACTIONS.SEND_MESSAGE).  Date.now() is read for the id (t1)    *)
(* and the clock is read again for the timestamp (t2); toISOString is a    *)
(* rendering of the instant, kept as a tagged value.  The specifications   *)
(* below send messages at least one clock tick apart.                      *)
(***************************************************************************)
LastN(log, n) == SubSeq(log, Len(log) - n + 1, Len(log))
\* variant: the trim that keeps the oldest messages, slice(0, 100)
RetainOldest(log) == IF Len(log) > Capacity THEN SubSeq(log, 1, Capacity) ELSE log
\* variant: the trim that cuts one message too many, slice(-99)
RetainShort(log) == IF Len(log) > Capacity THEN LastN(log, Capacity - 1) ELSE log
Retain(log) == IF Len(log) > Capacity THEN LastN(log, Capacity) ELSE log
ISOString(t) == <<"ISO", t>>

\* variant: the message built with username and text exchanged
MessageDataSwapped(username, message, t1, t2) ==
    [id |-> t1, username |-> message, message |-> username,
     timestamp |-> ISOString(t2)]
MessageData(username, message, t1, t2) ==
    [id |-> t1, username |-> username, message |-> message,
     timestamp |-> ISOString(t2)]

SendMessage(id, roomId, message, username, t1, t2) ==
    LET messageData == MessageData(username, message, t1, t2)
        log == IF roomId \in DOMAIN roomMessages THEN roomMessages[roomId] ELSE <<>>
    IN  /\ id \in sockets
        /\ now <= t1 /\ t1 <= t2
        /\ now' = t2
        /\ roomMessages' = Put(roomMessages, roomId, Retain(Append(log, messageData)))
        /\ sent' = [sent EXCEPT ![roomId] = Append(@, messageData)]
        /\ out' = <<[kind |-> "receive-message", to |-> IoTo(roomId),
                     message |-> messageData]>>
        /\ ev' = [op |-> "sendMessage", id |-> id, roomId |-> roomId,
                  username |-> username, message |-> message]
        /\ UNCHANGED <<sockets, closed, rooms, userSocketMap, roomCodeMap, roomUsers>>

(***************************************************************************)
(* socket.on(ACTIONS.FETCH_MESSAGES)                                       *)
(***************************************************************************)
Snapshot(roomId) ==
    IF roomId \in DOMAIN roomMessages THEN roomMessages[roomId] ELSE <<>>

FetchMessages(id, roomId) ==
    /\ id \in sockets
    /\ out' = <<[kind |-> "fetch-messages", to |-> {id},
                 messages |-> Snapshot(roomId)]>>
    /\ ev' = [op |-> "fetchMessages", id |-> id, roomId |-> roomId]
    /\ UNCHANGED <<sockets, closed, rooms, store, now, sent>>

(***************************************************************************)
(* socket.on("disconnecting"), followed by socket.io taking the socket out *)
(* of every room and of io.sockets.sockets.  The handler walks socket.rooms*)
(* in the order the socket joined them, which the model does not record:   *)
(* every order is allowed.  What is done for one room reads nothing that   *)
(* is written for another.                                                 *)
(***************************************************************************)
\* variant: the test without sid !== socket.id, which counts the socket itself
HasOtherConnectionsSelf(id, roomId, username) ==
    \E sid \in Range(rooms[roomId]) : Lookup(userSocketMap, sid) = username
\* variant: the handler without the test for other connections
HasOtherConnectionsNever(id, roomId, username) == FALSE
HasOtherConnections(id, roomId, username) ==
    \E sid \in Range(rooms[roomId]) :
        sid # id /\ Lookup(userSocketMap, sid) = username

SocketRooms(id) == {r \in DOMAIN rooms : id \in Range(rooms[r])}

\* variant: every room of the socket is left, whoever else is in it
LeavingAll(id) == SocketRooms(id)
Leaving(id) ==
    {r \in SocketRooms(id) :
        ~HasOtherConnections(id, r, Lookup(userSocketMap, id))}

\* variant: the handler without roomUsers[roomId].delete(username)
RemainingAll(id, roomId) == roomUsers[roomId]
Remaining(id, roomId) == roomUsers[roomId] \ {Lookup(userSocketMap, id)}

Destroyed(id) ==
    {r \in Leaving(id) \cap DOMAIN roomUsers : Remaining(id, r) = {}}

\* variant: the handler that forgets delete userSocketMap[socket.id]
UnregisterNot(id) == userSocketMap
Unregister(id) == Delete(userSocketMap, {id})

Orders(S) == {s \in [1..Cardinality(S) -> S] : Range(s) = S}

Disconnecting(id) ==
    /\ id \in sockets
    /\ \E order \in Orders(Leaving(id)) :
          out' = [i \in DOMAIN order |->
                    [kind |-> "disconnected", roomId |-> order[i],
                     to |-> SocketTo(id, order[i]),
                     socketId |-> id, username |-> Lookup(userSocketMap, id)]]
    /\ roomUsers' = [r \in DOMAIN roomUsers \ Destroyed(id) |->
                        IF r \in Leaving(id) THEN Remaining(id, r) ELSE roomUsers[r]]
    /\ roomCodeMap' = Delete(roomCodeMap, Destroyed(id))
    /\ roomMessages' = Delete(roomMessages, Destroyed(id))
    /\ userSocketMap' = Unregister(id)
    /\ rooms' = [r \in DOMAIN rooms |-> Without(rooms[r], {id})]
    /\ sockets' = sockets \ {id}
    /\ closed' = closed \cup {id}
    /\ sent' = [r \in DOMAIN sent |-> IF r \in Destroyed(id) THEN <<>> ELSE sent[r]]
    /\ ev' = [op |-> "disconnecting", id |-> id, rooms |-> SocketRooms(id),
              username |-> Lookup(userSocketMap, id),
              evictedJust |-> IF ev.op = "join" /\ id \in ev.evicted
                              THEN {ev.roomId} ELSE {}]
    /\ UNCHANGED now

(***************************************************************************)
(* The server under any clients: every event, from any connected socket,   *)
(* joins over every room and username, code and chat in DataRooms.         *)
(***************************************************************************)
Next ==
    \/ Cardinality(sockets) < MaxLive /\ Connect
    \/ \E id \in Conns, roomId \in Rooms, username \in Users :
          Join(id, roomId, username)
    \/ \E id \in Conns, roomId \in DataRooms, code \in Codes :
          CodeChange(id, roomId, code)
    \/ \E socketId \in Conns, roomId \in DataRooms, code \in CodeInputs :
          SyncCode(socketId, roomId, code)
    \/ \E id \in Conns, roomId \in DataRooms, message \in Texts, username \in Users :
          /\ now < MaxSends
          /\ SendMessage(id, roomId, message, username, now + 1, now + 1)
    \/ \E id \in Conns, roomId \in DataRooms : FetchMessages(id, roomId)
    \/ \E id \in Conns : Disconnecting(id)

Spec == Init /\ [][Next]_vars

(***************************************************************************)
(* One room and one username, used by every connection.                    *)
(***************************************************************************)
PairRoom == "r1"
PairUser == "A"

NextPair ==
    \/ Connect
    \/ \E id \in Conns : Join(id, PairRoom, PairUser)
    \/ \E id \in Conns, code \in Codes : CodeChange(id, PairRoom, code)
    \/ \E id \in Conns, message \in Texts :
          /\ now < MaxSends
          /\ SendMessage(id, PairRoom, message, PairUser, now + 1, now + 1)
    \/ \E id \in Conns : FetchMessages(id, PairRoom)
    \/ \E id \in Conns : Disconnecting(id)

SpecPair == Init /\ [][NextPair]_vars

(***************************************************************************)
(* One room's chat history driven past its capacity: sockets connect and   *)
(* join and stay, any of them sends and fetches.                           *)
(***************************************************************************)
ChatRoom == "r1"
ChatUser == "A"

NextChat ==
    \/ Connect
    \/ \E id \in Conns, username \in Users : Join(id, ChatRoom, username)
    \/ \E id \in Conns, message \in Texts :
          /\ now < MaxChat
          /\ SendMessage(id, ChatRoom, message, ChatUser, now + 1, now + 1)
    \/ \E id \in Conns : FetchMessages(id, ChatRoom)

SpecChat == Init /\ [][NextChat]_vars

(***************************************************************************)
(* Presence alone: sockets connect, join any room under any username and   *)
(* disconnect.                                                             *)
(***************************************************************************)
NextRooms ==
    \/ Connect
    \/ \E id \in Conns, roomId \in Rooms, username \in Users :
          Join(id, roomId, username)
    \/ \E id \in Conns : Disconnecting(id)

SpecRooms == Init /\ [][NextRooms]_vars

(***************************************************************************)
(* One room's code buffer: sockets connect, join the room under any        *)
(* username, change and sync its code, and disconnect.                     *)
(***************************************************************************)
EditRoom == "r1"

NextEdit ==
    \/ Connect
    \/ \E id \in Conns, username \in Users : Join(id, EditRoom, username)
    \/ \E id \in Conns, code \in Codes : CodeChange(id, EditRoom, code)
    \/ \E socketId \in Conns, code \in CodeInputs :
          SyncCode(socketId, EditRoom, code)
    \/ \E id \in Conns : Disconnecting(id)

SpecEdit == Init /\ [][NextEdit]_vars

(***************************************************************************)
(* Payloads with missing fields: sockets connect and stay; a join, a      *)
(* codeChange or a sendMessage may lack its roomId, its username or its    *)
(* code.                                                                   *)
(***************************************************************************)
LooseRooms == {"r1", Undefined}
LooseUsers == {"A", Undefined}
LooseCodes == {"x", Undefined}

NextLoose ==
    \/ Cardinality(sockets) < MaxLive /\ Connect
    \/ \E id \in Conns, roomId \in LooseRooms, username \in LooseUsers :
          Join(id, roomId, username)
    \/ \E id \in Conns, roomId \in LooseRooms, code \in LooseCodes :
          CodeChange(id, roomId, code)
    \/ \E id \in Conns, roomId \in LooseRooms, message \in Texts,
          username \in LooseUsers :
          /\ now < MaxSends
          /\ SendMessage(id, roomId, message, username, now + 1, now + 1)

SpecLoose == Init /\ [][NextLoose]_vars

(***************************************************************************)
(* Leaving rooms that hold state: a few sockets connect once each, join    *)
(* any room under any username, write code and chat into one of the rooms, *)
(* and disconnect.                                                         *)
(***************************************************************************)
LeaveCode == "x"
LeaveUser == "A"

NextLeave ==
    \/ Cardinality(sockets \cup closed) < MaxLive /\ Connect
    \/ \E id \in Conns, roomId \in Rooms, username \in Users :
          Join(id, roomId, username)
    \/ \E id \in Conns, roomId \in DataRooms : CodeChange(id, roomId, LeaveCode)
    \/ \E id \in Conns, roomId \in DataRooms, message \in Texts :
          /\ now < MaxSends
          /\ SendMessage(id, roomId, message, LeaveUser, now + 1, now + 1)
    \/ \E id \in Conns : Disconnecting(id)

SpecLeave == Init /\ [][NextLeave]_vars

(***************************************************************************)
(* Vocabulary of the properties.                                           *)
(***************************************************************************)
\* the room's membership set, empty when the room has no entry
Members(roomId) == IF roomId \in DOMAIN roomUsers THEN roomUsers[roomId] ELSE {}

\* the connections joined to the room and mapped to the username
Registered(roomId, username) ==
    {c \in Range(rooms[roomId]) : Lookup(userSocketMap, c) = username}

\* the usernames of the connections joined to the room
Present(roomId) ==
    {Lookup(userSocketMap, c) : c \in Range(rooms[roomId])} \ {Undefined}

\* the socket ids a joined event lists
Listed(event) == {event.clients[k].socketId : k \in DOMAIN event.clients}

(***************************************************************************)
(* C1.  With one room and one username used by every connection, the       *)
(* room's membership set contains the username exactly when some           *)
(* connection is joined to the room and registered under it; at most one   *)
(* connection is, and the membership set holds nothing else.               *)
(***************************************************************************)
C1_MemberIffRegistered ==
    /\ (PairUser \in Members(PairRoom)) <=> (Registered(PairRoom, PairUser) # {})
    /\ Cardinality(Registered(PairRoom, PairUser)) <= 1
    /\ Members(PairRoom) \subseteq {PairUser}

\* a second connection has just taken the username over from a connected one,
\* after an earlier connection had closed
C1_Witness ==
    /\ ev.op = "join"
    /\ ev.evicted # {}
    /\ ev.evicted \subseteq sockets
    /\ closed # {}
    /\ PairUser \in Members(PairRoom)

(***************************************************************************)
(* C2.  In every room, at most one joined connection is mapped to any one  *)
(* username.                                                               *)
(***************************************************************************)
C2_OneConnectionPerUsername ==
    \A r \in Rooms, u \in Users : Cardinality(Registered(r, u)) <= 1

(***************************************************************************)
(* C3.  A room has a code buffer or a message log exactly when its         *)
(* membership set is non-empty.                                            *)
(***************************************************************************)
C3_StoredIffMembers ==
    \A r \in Rooms :
        (r \in DOMAIN roomCodeMap \/ r \in DOMAIN roomMessages) <=> (Members(r) # {})

(***************************************************************************)
(* C4.  Every room's membership set is the set of usernames that have a    *)
(* connection joined to the room and mapped to them.                       *)
(***************************************************************************)
C4_MembersAreRegistered ==
    \A r \in Rooms : Members(r) = Present(r)

(***************************************************************************)
(* C5.  A join under a username that another connection of the room is     *)
(* mapped to is accepted; the other connection is taken out of the room    *)
(* and out of the registry.  A joined event lists only connections joined  *)
(* to the room, and a connection enters a room only by its own join: the   *)
(* evicted connection is listed in no joined event until it joins again.   *)
(***************************************************************************)
C5_JoinEvictsPrior ==
    [][ /\ \A c1 \in Conns :
              ( /\ ev'.op = "join"
                /\ ev'.username \in Users
                /\ c1 # ev'.id
                /\ c1 \in Registered(ev'.roomId, ev'.username) )
              => /\ ev'.id \in Range(rooms'[ev'.roomId])
                 /\ Lookup(userSocketMap', ev'.id) = ev'.username
                 /\ \E i \in DOMAIN out' : out'[i].kind = "joined"
                 /\ c1 \notin Range(rooms'[ev'.roomId])
                 /\ c1 \notin DOMAIN userSocketMap'
        /\ \A i \in DOMAIN out' :
              out'[i].kind = "joined"
              => Listed(out'[i]) \subseteq Range(rooms'[ev'.roomId])
        /\ \A r \in Rooms, c \in Conns :
              (c \in Range(rooms'[r]) /\ c \notin Range(rooms[r]))
              => (ev'.op = "join" /\ ev'.id = c /\ ev'.roomId = r)
      ]_vars

\* a join has just evicted a connection that is still connected, and the
\* joined event lists the joiner alone under the username
C5_Witness ==
    /\ ev.op = "join"
    /\ ev.evicted # {}
    /\ ev.evicted \subseteq sockets
    /\ ev.evicted \cap Range(rooms[ev.roomId]) = {}
    /\ \E k \in DOMAIN out[1].clients :
          out[1].clients[k] = [socketId |-> ev.id, username |-> ev.username]

(***************************************************************************)
(* C6.  A join that evicts a connection delivers some event to the evicted *)
(* connection.                                                             *)
(***************************************************************************)
C6_EvictedIsNotified ==
    [][ ev'.op = "join"
        => \A c1 \in ev'.evicted : \E i \in DOMAIN out' : c1 \in out'[i].to ]_vars

(***************************************************************************)
(* C7.  fetchMessages returns to the requester the messages sent to the    *)
(* room, all of them in the order sent while they are at most 100, and the *)
(* last 100 of them in the order sent once they are more.                  *)
(***************************************************************************)
C7_FetchReturnsLastSent ==
    ev.op = "fetchMessages"
    => LET all == sent[ev.roomId]
       IN  /\ Len(out) = 1
           /\ out[1].kind = "fetch-messages"
           /\ out[1].to = {ev.id}
           /\ out[1].messages =
                 IF Len(all) > 100
                 THEN [i \in 1..100 |-> all[Len(all) - 100 + i]]
                 ELSE all

\* a fetch by a member after more messages were sent than the log retains
C7_Witness ==
    /\ ev.op = "fetchMessages"
    /\ ev.id \in Range(rooms[ev.roomId])
    /\ Len(sent[ev.roomId]) > Capacity
    /\ Len(out[1].messages) = Capacity
    /\ out[1].messages[1].id = Len(sent[ev.roomId]) - Capacity + 1

(***************************************************************************)
(* C8.  A codeChange by a member of a room followed by the join of a       *)
(* connection that is not in the room delivers a code-change event with    *)
(* the code of that codeChange to the joiner.                              *)
(***************************************************************************)
C8_JoinerReceivesCode ==
    [][ ( /\ ev.op = "codeChange"
          /\ ev.id \in Range(rooms[ev.roomId])
          /\ ev'.op = "join"
          /\ ev'.roomId = ev.roomId
          /\ ev'.id \notin Range(rooms[ev.roomId]) )
        => \E i \in DOMAIN out' :
              /\ out'[i].kind = "code-change"
              /\ out'[i].to = {ev'.id}
              /\ out'[i].code = ev.code ]_vars

(***************************************************************************)
(* C9.  codeChange stores the code as the room's buffer and emits a        *)
(* code-change event with that code to every other connection joined to    *)
(* the room, once each, and to nobody else: not to the sender.             *)
(***************************************************************************)
C9_CodeChangeSkipsSender ==
    [][ ev'.op = "codeChange"
        => /\ ev'.roomId \in DOMAIN roomCodeMap'
           /\ roomCodeMap'[ev'.roomId] = ev'.code
           /\ \A c \in Range(rooms[ev'.roomId]) \ {ev'.id} :
                 Cardinality({i \in DOMAIN out' :
                     /\ out'[i].kind = "code-change"
                     /\ out'[i].code = ev'.code
                     /\ c \in out'[i].to}) = 1
           /\ \A i \in DOMAIN out' :
                 /\ out'[i].kind = "code-change"
                 /\ out'[i].code = ev'.code
                 /\ ev'.id \notin out'[i].to
                 /\ out'[i].to \subseteq Range(rooms[ev'.roomId]) ]_vars

\* a member of a room of two has just changed the code: the other member
\* is the one addressee
C9_Witness ==
    /\ ev.op = "codeChange"
    /\ ev.id \in Range(rooms[ev.roomId])
    /\ Cardinality(Range(rooms[ev.roomId])) = 2
    /\ out[1].to = Range(rooms[ev.roomId]) \ {ev.id}

(***************************************************************************)
(* C10.  sendMessage appends one message, made of the payload's username   *)
(* and text and one id and timestamp, to the room's log, and emits one     *)
(* receive-message event carrying that message to every connection joined  *)
(* to the room, the sender included when it is joined.                     *)
(***************************************************************************)
C10_MessageReachesWholeRoom ==
    [][ ev'.op = "sendMessage"
        => LET before == IF ev'.roomId \in DOMAIN roomMessages
                         THEN roomMessages[ev'.roomId] ELSE <<>>
               after == roomMessages'[ev'.roomId]
               m == after[Len(after)]
           IN  /\ Len(after) >= 1
               /\ m.username = ev'.username
               /\ m.message = ev'.message
               /\ Len(before) < Capacity => after = Append(before, m)
               /\ Len(out') = 1
               /\ out'[1].kind = "receive-message"
               /\ out'[1].message = m
               /\ out'[1].to = Range(rooms[ev'.roomId])
               /\ ev'.id \in Range(rooms[ev'.roomId]) => ev'.id \in out'[1].to ]_vars

\* a member of a room of two has just sent a message: both receive it
C10_Witness ==
    /\ ev.op = "sendMessage"
    /\ ev.id \in Range(rooms[ev.roomId])
    /\ Cardinality(out[1].to) = 2
    /\ ev.id \in out[1].to

\* the disconnected events among those the last handler emitted for a room
DisconnectedFor(roomId) ==
    {i \in DOMAIN out : out[i].kind = "disconnected" /\ out[i].roomId = roomId}

(***************************************************************************)
(* C11.  When a socket disconnects that is the only connection joined to a *)
(* room and mapped to its username, one disconnected event is emitted for  *)
(* the room, with the socket's id and that username, to every other socket *)
(* joined to the room, and the username leaves the room's membership set.  *)
(***************************************************************************)
C11_LastConnectionLeaves ==
    [][ ev'.op = "disconnecting"
        => \A r \in Rooms, u \in Users :
              Registered(r, u) = {ev'.id}
              => /\ Cardinality(DisconnectedFor(r)') = 1
                 /\ \A i \in DisconnectedFor(r)' :
                       /\ out'[i].socketId = ev'.id
                       /\ out'[i].username = u
                       /\ out'[i].to = Range(rooms[r]) \ {ev'.id}
                 /\ u \notin Members(r)' ]_vars

\* a socket has just left a room in which another socket stays and was told
C11_Witness ==
    /\ ev.op = "disconnecting"
    /\ ev.username \in Users
    /\ \E r \in ev.rooms :
          /\ DisconnectedFor(r) # {}
          /\ \A i \in DisconnectedFor(r) : out[i].to # {}
          /\ r \in DOMAIN roomUsers
          /\ ev.username \notin roomUsers[r]

(***************************************************************************)
(* C12.  When the last connection joined to a room disconnects, the room   *)
(* has no code buffer afterwards and no retained message.                  *)
(***************************************************************************)
C12_EmptyRoomIsForgotten ==
    [][ ev'.op = "disconnecting"
        => \A r \in Rooms :
              (ev'.id \in Range(rooms[r]) /\ Range(rooms'[r]) = {})
              => /\ ~Truthy(Lookup(roomCodeMap, r))'
                 /\ Snapshot(r)' = <<>> ]_vars

(***************************************************************************)
(* C13.  When a socket disconnects while another socket joined to the room *)
(* is mapped to the same username, no disconnected event is emitted for    *)
(* the room and the room's membership set, code buffer and message log     *)
(* stay as they are.                                                       *)
(***************************************************************************)
C13_SiblingKeepsUserPresent ==
    [][ ev'.op = "disconnecting"
        => \A r \in Rooms :
              ( /\ ev'.id \in Range(rooms[r])
                /\ ev'.username \in Users
                /\ Registered(r, ev'.username) \ {ev'.id} # {} )
              => /\ DisconnectedFor(r)' = {}
                 /\ r \in DOMAIN roomUsers
                 /\ r \in DOMAIN roomUsers'
                 /\ roomUsers'[r] = roomUsers[r]
                 /\ Lookup(roomCodeMap', r) = Lookup(roomCodeMap, r)
                 /\ (r \in DOMAIN roomCodeMap') = (r \in DOMAIN roomCodeMap)
                 /\ r \in DOMAIN roomMessages'
                 /\ r \in DOMAIN roomMessages
                 /\ roomMessages'[r] = roomMessages[r] ]_vars

\* a socket has just disconnected from a room with code and chat in which a
\* socket of the same username stays: nothing was emitted for that room
C13_Witness ==
    /\ ev.op = "disconnecting"
    /\ ev.username \in Users
    /\ \E r \in ev.rooms :
          /\ Registered(r, ev.username) # {}
          /\ ev.username \in Members(r)
          /\ Truthy(Lookup(roomCodeMap, r))
          /\ Len(Snapshot(r)) > 0
          /\ DisconnectedFor(r) = {}

(***************************************************************************)
(* C14.  A socket that a join has just evicted from a room under a         *)
(* username emits, when it disconnects next, no disconnected event for     *)
(* that username in that room, and the username stays in the room's        *)
(* membership set.  Whenever a disconnected event is emitted for a         *)
(* username in a room, no socket mapped to that username remains joined to *)
(* the room.                                                               *)
(***************************************************************************)
C14_EvictedLeavesSilently ==
    [][ /\ ev'.op = "disconnecting"
           => \A r \in ev'.evictedJust :
                 /\ \A i \in DisconnectedFor(r)' : out'[i].username # ev.username
                 /\ ev.username \in Members(r)'
        /\ \A r \in Rooms, u \in Users :
              (\E i \in DisconnectedFor(r)' : out'[i].username = u)
              => Registered(r, u)' = {} ]_vars

\* the socket a join had just evicted has disconnected; its successor is
\* still joined under the username
C14_Witness ==
    /\ ev.op = "disconnecting"
    /\ \E r \in ev.evictedJust, u \in Users :
          /\ Registered(r, u) # {}
          /\ u \in Members(r)
          /\ DisconnectedFor(r) = {}

(***************************************************************************)
(* C15.  A join without roomId or username, a codeChange without roomId or *)
(* code and a sendMessage without roomId or username change neither the    *)
(* registry nor any room and emit nothing.                                 *)
(***************************************************************************)
C15_MalformedIsNoOp ==
    [][ ( \/ /\ ev'.op = "join"
              /\ Undefined \in {ev'.roomId, ev'.username}
          \/ /\ ev'.op = "codeChange"
              /\ Undefined \in {ev'.roomId, ev'.code}
          \/ /\ ev'.op = "sendMessage"
              /\ Undefined \in {ev'.roomId, ev'.username} )
        => /\ UNCHANGED <<userSocketMap, roomUsers, roomCodeMap, roomMessages, rooms>>
           /\ \A i \in DOMAIN out' : out'[i].to = {} ]_vars

(***************************************************************************)
(* C16.  A join emits one joined event, to every socket joined to the room *)
(* after the join, the joiner included; it names the joiner's username and *)
(* id, and its client list has one entry for each username some joined     *)
(* socket is mapped to, each entry naming a joined socket mapped to that   *)
(* username, the joiner for the joiner's username.                         *)
(***************************************************************************)
C16_JoinedListsEachUserOnce ==
    [][ ev'.op = "join"
        => \E r \in RoomKeys :
           LET J == {i \in DOMAIN out' : out'[i].kind = "joined"}
           IN  /\ r = ev'.roomId
               /\ Cardinality(J) = 1
               /\ \A i \in J :
                     LET e == out'[i]
                     IN  /\ e.to = Range(rooms'[r])
                         /\ ev'.id \in e.to
                         /\ e.username = ev'.username
                         /\ e.socketId = ev'.id
                         /\ {e.clients[k].username : k \in DOMAIN e.clients} = Present(r)'
                         /\ \A k1, k2 \in DOMAIN e.clients :
                               e.clients[k1].username = e.clients[k2].username => k1 = k2
                         /\ \A k \in DOMAIN e.clients :
                               /\ e.clients[k].socketId \in Range(rooms'[r])
                               /\ Lookup(userSocketMap', e.clients[k].socketId)
                                     = e.clients[k].username
                         /\ \E k \in DOMAIN e.clients :
                               e.clients[k] = [socketId |-> ev'.id,
                                               username |-> ev'.username] ]_vars

\* a join into a room of three sockets, two of them mapped to one username:
\* the joined event lists two clients
C16_Witness ==
    /\ ev.op = "join"
    /\ Cardinality(Range(rooms[ev.roomId])) = 3
    /\ Len(out[1].clients) = 2
    /\ out[1].to = Range(rooms[ev.roomId])

(***************************************************************************)
(* C17.  A join that evicts a socket from one room leaves the socket in    *)
(* every other room it is joined to, under the username it had.            *)
(***************************************************************************)
C17_EvictionIsPerRoom ==
    [][ ev'.op = "join"
        => \A c1 \in ev'.evicted, r2 \in Rooms \ {ev'.roomId} :
              c1 \in Range(rooms[r2])
              => /\ c1 \in Range(rooms'[r2])
                 /\ Lookup(userSocketMap', c1) = Lookup(userSocketMap, c1) ]_vars

(***************************************************************************)
(* C18.  syncCode with a code stores it as the room's buffer and emits one *)
(* code-change event with it, to the target alone; without a code it       *)
(* leaves the buffer as it is and emits the stored code, if the room has   *)
(* one, to the target alone.                                               *)
(***************************************************************************)
C18_SyncReachesTarget ==
    [][ (ev'.op = "syncCode" /\ ev'.socketId \in sockets)
        => LET r == ev'.roomId
               delivered == /\ Len(out') = 1
                            /\ out'[1].kind = "code-change"
                            /\ out'[1].to = {ev'.socketId}
                            /\ out'[1].code = roomCodeMap'[r]
           IN  IF ev'.code # Undefined
               THEN /\ r \in DOMAIN roomCodeMap'
                    /\ roomCodeMap'[r] = ev'.code
                    /\ delivered
               ELSE /\ roomCodeMap' = roomCodeMap
                    /\ IF r \in DOMAIN roomCodeMap THEN delivered ELSE out' = <<>> ]_vars

(***************************************************************************)
(* C19.  No room's log ever holds more than 100 messages, and a            *)
(* sendMessage that finds 100 drops the oldest one and appends the new one *)
(* behind the other 99, which stay as they were.                           *)
(***************************************************************************)
C19_LogIsBoundedFifo ==
    [][ /\ \A r \in DOMAIN roomMessages' : Len(roomMessages'[r]) <= 100
        /\ ev'.op = "sendMessage"
           => LET before == Snapshot(ev'.roomId)
                  after == roomMessages'[ev'.roomId]
              IN  Len(before) = 100
                  => /\ Len(after) = 100
                     /\ \A i \in 1..99 : after[i] = before[i + 1]
                     /\ after[100].id = now' ]_vars

\* a message has just been sent to a full log
C19_Witness ==
    /\ ev.op = "sendMessage"
    /\ Len(sent[ev.roomId]) > Capacity + 1
    /\ Len(roomMessages[ev.roomId]) = Capacity
    /\ roomMessages[ev.roomId][Capacity].id = now
    /\ roomMessages[ev.roomId][1].id = now - Capacity + 1

(***************************************************************************)
(* C20.  Every key of the registry is a connected socket.                  *)
(***************************************************************************)
C20_RegistryHoldsLiveSockets ==
    DOMAIN userSocketMap \subseteq sockets

\* a registered socket has just disconnected while another stays registered
C20_Witness ==
    /\ ev.op = "disconnecting"
    /\ ev.username \in Users
    /\ ev.id \in closed
    /\ ev.id \notin DOMAIN userSocketMap
    /\ DOMAIN userSocketMap # {}

====
